---- MODULE Spec2Model ----
(***************************************************************************)
(* State-machine model of the source cache of typst-lsp:                   *)
(*   src/src/workspace/source_manager.rs  (SourceManager, CachedSource)    *)
(*   src/src/workspace/source.rs          (Source)                         *)
(*                                                                         *)
(* Tasks are async callers of the SourceManager methods.  A method is cut  *)
(* into steps at its await points (lock acquisitions and the file read);   *)
(* everything between two await points touches shared state only under a   *)
(* lock that the task holds, and is one atomic step.                       *)
(***************************************************************************)
EXTENDS Integers, FiniteSets, Sequences, TLC

\* ------------------------------------------------------------------ bounds

\* Number of concurrent tasks calling into the manager.
NumTasks == 2

TASKS == 1..NumTasks
NoTask == 0

\* The URIs the tasks use, the texts an editor sends, the content on disk.
URIS == {"file:///a.typ", "file:///b.typ"}
TEXTS == {"A", "B"}
DISK_TEXTS == {"D"}
NoFile == "<absent>"
NoUri == "<none>"
NoText == "<none>"

\* A URI of the workspace outside URIS, and the text of its file.
OtherUri == "file:///other.typ"
OtherText == "O"

\* ------------------------------------------------------------- SourceId

\* SourceId(u16): `ids.len() as u16` keeps the low 16 bits.
IdBits == 16
IdSpace == 2 ^ IdBits
NoId == -1

AsU16(n) == n % IdSpace

\* ------------------------------------------------------------ variables

VARIABLES
    ids,        \* SourceManager.ids: URI -> SourceId (NoId: no entry), for URIS
    nOther,     \* entries of `ids` for URIs outside URIS: ids 0..nOther-1
    sources,    \* SourceManager.sources: slot index -> CachedSource
    idsLock,    \* the RwLock around `ids`
    slotLock,   \* the RwLock around each slot
    disk,       \* file system: URI -> content or NoFile
    reloads,    \* per slot: disk reloads by cache() since the slot last went stale
    task,       \* per task: position in its method, arguments, locals, result
    outer,      \* the RwLock around the SourceManager (Workspace.sources)
    pass,       \* per task: position in the server's compile / diagnostics code
    published,  \* per URI: the task whose pass last published its diagnostics
    lastDone    \* the task whose compile / evaluate pass completed last

\* The state of the server around the SourceManager.
svars == <<outer, pass, published, lastDone>>

vars == <<ids, nOther, sources, idsLock, slotLock, disk, reloads, task,
          outer, pass, published, lastDone>>

\* ------------------------------------------------------- Source, slots

\* Source::new(id, uri, text): the text of one file and the id it was built with.
Source(id, uri, text) == [id |-> id, uri |-> uri, text |-> text]

\* enum CachedSource
Open(source) == [st |-> "Open", source |-> source]
ClosedUnmodified(source) == [st |-> "ClosedUnmodified", source |-> source]
ClosedModified(uri) == [st |-> "ClosedModified", uri |-> uri]

\* No CachedSource: the `old` local of close outside lines 204-206.
NoSlot == [st |-> "none"]

\* CachedSource::new_open
new_open(id, uri, text) == Open(Source(id, uri, text))

\* Mutant of is_open: every slot that holds a source counts as open.
is_open_cached(cs) == cs.st \in {"Open", "ClosedUnmodified"}

\* CachedSource::is_open
is_open(cs) == cs.st = "Open"

\* CachedSource::get_cached_source / get_mut_cached_source / take_cached_source:
\* Some(source) for Open and ClosedUnmodified, None for ClosedModified.
HasCachedSource(cs) == cs.st \in {"Open", "ClosedUnmodified"}

\* tokio::fs::read_to_string on the file of `uri`: the text, or NoFile on failure.
read_to_string(uri) == IF uri \in DOMAIN disk THEN disk[uri] ELSE OtherText

\* The std::io::Error of a failed read_to_string: the file is absent.
io_error(text) == IF text = NoFile THEN "NotFound" ELSE "none"

\* Source::new_from_file: `.map_err(|_| FileError::Other)`, whatever the error.
map_err(e) == "Other"

\* ------------------------------------------------------------- tables

Registered == {u \in URIS : ids[u] # NoId}

\* ids.len()
IdsLen == nOther + Cardinality(Registered)

\* The slots appended for URIS follow those of the other URIs.  Of the other
\* URIs' slots the model keeps the first few (LowSlots); the rest are never
\* addressed by an id the tasks hold.
LowSlots(n) == {i \in 0..(Cardinality(URIS) - 1) : i < n}

\* sources.len()
SourcesLen == nOther + Cardinality({i \in DOMAIN sources : i >= nOther})

\* AppendOnlyVec::push: the new slot gets the next index and a fresh lock.
PushedSources(cs) == (SourcesLen :> cs) @@ sources

Unlocked == [w |-> NoTask, r |-> {}]
WriteLocked(t) == [w |-> t, r |-> {}]
ReadLocked(t) == [w |-> NoTask, r |-> {t}]

\* Mutant of IsFree: the lock is taken as by read(), which readers do not block.
IsFree_shared(lock) == lock.w = NoTask

\* RwLock::write() can be granted: no writer and no reader.
IsFree(lock) == lock.w = NoTask /\ lock.r = {}

\* ----------------------------------------------------------------- tasks

IdleTask ==
    [pc |-> "idle", op |-> "none", uri |-> NoUri, id |-> NoId, text |-> NoText,
     vacant |-> FALSE, old |-> NoSlot, ret |-> "none", error |-> "none"]

\* A task entering method `op` with its arguments.
Entered(op, pc, uri, id, text) ==
    [pc |-> pc, op |-> op, uri |-> uri, id |-> id, text |-> text,
     vacant |-> FALSE, old |-> NoSlot, ret |-> "none", error |-> "none"]

\* The ids a caller can hold: returned by get_id or open. open's vacant branch
\* inserts the id before it takes the slot lock and returns.
Unreturned ==
    {task[t].uri : t \in {x \in TASKS : task[x].op = "open" /\ task[x].vacant
                                        /\ task[x].pc \in {"slot_write", "cache_load"}}}
KnownIds == {ids[u] : u \in Registered \ Unreturned}

\* ----------------------------------------------------------- the server

\* A task outside compile_source, eval_source, run_diagnostics and
\* run_diagnostics_and_export, holding no guard on Workspace.sources.
NoPass ==
    [stage |-> "none", entry |-> "none", caller |-> "none", q |-> "none",
     out |-> "none", outId |-> NoId, logs |-> 0, seen |-> {}, resolved |-> {},
     result |-> "none", errs |-> {}, evicts |-> 0, threshold |-> 0,
     todo |-> {}, res |-> {}, keys |-> {}, toPublish |-> {}, done |-> FALSE]

\* ------------------------------------------------------------------ Init

InitTables(n) ==
    /\ nOther = n
    /\ ids = [u \in URIS |-> NoId]
    /\ sources = [i \in LowSlots(n) |-> ClosedUnmodified(Source(i, OtherUri, OtherText))]
    /\ slotLock = [i \in LowSlots(n) |-> Unlocked]
    /\ reloads = [i \in LowSlots(n) |-> 0]
    /\ idsLock = Unlocked
    /\ disk \in [URIS -> DISK_TEXTS \cup {NoFile}]
    /\ task = [t \in TASKS |-> IdleTask]
    /\ outer = Unlocked
    /\ pass = [t \in TASKS |-> NoPass]
    /\ published = [u \in URIS |-> NoTask]
    /\ lastDone = NoTask

\* SourceManager::default(): both tables empty.
Init == InitTables(0)

\* -------------------------------------------------------------- get_id

\* `SourceId(ids.len() as u16)`
next_id == AsU16(IdsLen)

\* get_id returns Ok(id): to its caller, or on into close, which then awaits
\* the slot's write lock.
GetIdReturned(tk, id) ==
    IF tk.op = "close"
    THEN [tk EXCEPT !.pc = "slot_write", !.id = id]
    ELSE [tk EXCEPT !.pc = "idle", !.id = id, !.ret = "ok"]

\* get_id returns Err(error): to its caller, or close returns at its let-else.
GetIdFailed(tk) ==
    [tk EXCEPT !.pc = "idle", !.ret = "err",
               !.error = map_err(io_error(read_to_string(tk.uri)))]

\* Mutant of GetIdEntry: the entry is not looked up; a known URI is loaded and
\* registered again.
GetIdEntry_reload(t, tk) ==
    /\ IsFree(idsLock)
    /\ idsLock' = WriteLocked(t)
    /\ task' = [task EXCEPT ![t] = [tk EXCEPT !.pc = "get_id_load",
                                              !.id = next_id, !.vacant = TRUE]]
    /\ UNCHANGED <<ids, nOther, sources, slotLock, disk, reloads>>

\* get_id up to its first await after the lock: the write lock on `ids` is
\* granted, next_id is taken and the entry is matched. Occupied: the id is
\* returned and the guard dropped. Vacant: the task awaits the file read, still
\* holding the guard.
GetIdEntry(t, tk) ==
    /\ IsFree(idsLock)
    /\ IF ids[tk.uri] = NoId
       THEN /\ idsLock' = WriteLocked(t)
            /\ task' = [task EXCEPT ![t] = [tk EXCEPT !.pc = "get_id_load",
                                                      !.id = next_id, !.vacant = TRUE]]
       ELSE /\ idsLock' = idsLock
            /\ task' = [task EXCEPT ![t] = GetIdReturned(tk, ids[tk.uri])]
    /\ UNCHANGED <<ids, nOther, sources, slotLock, disk, reloads>>

\* A task calls get_id(uri).
get_id(t, u) ==
    /\ task[t].pc = "idle"
    /\ GetIdEntry(t, Entered("get_id", "idle", u, NoId, NoText))

\* A task calls close(uri), which starts with get_id(uri).
close(t, u) ==
    /\ task[t].pc = "idle"
    /\ GetIdEntry(t, Entered("close", "idle", u, NoId, NoText))

\* Mutant of GetIdLoaded: the id is committed before the load is known to have
\* succeeded, so a failed load leaves an entry and a stale slot behind.
GetIdLoaded_commit(t) ==
    LET tk == task[t]
        text == read_to_string(tk.uri)
    IN  /\ idsLock' = Unlocked
        /\ sources' = PushedSources(IF text = NoFile THEN ClosedModified(tk.uri)
                                    ELSE ClosedUnmodified(Source(tk.id, tk.uri, text)))
        /\ slotLock' = (SourcesLen :> Unlocked) @@ slotLock
        /\ reloads' = (SourcesLen :> 0) @@ reloads
        /\ ids' = [ids EXCEPT ![tk.uri] = tk.id]
        /\ task' = [task EXCEPT ![t] = IF text = NoFile THEN GetIdFailed(tk)
                                       ELSE GetIdReturned(tk, tk.id)]
        /\ UNCHANGED <<nOther, disk>>

\* get_id after `Source::new_from_file(next_id, uri).await`: on an error `?`
\* returns it and drops the guard; otherwise the slot is pushed, the id inserted.
GetIdLoaded(t) ==
    LET tk == task[t]
        text == read_to_string(tk.uri)
    IN  /\ idsLock' = Unlocked
        /\ IF text = NoFile
           THEN /\ task' = [task EXCEPT ![t] = GetIdFailed(tk)]
                /\ UNCHANGED <<ids, sources, slotLock, reloads>>
           ELSE /\ sources' = PushedSources(ClosedUnmodified(Source(tk.id, tk.uri, text)))
                /\ slotLock' = (SourcesLen :> Unlocked) @@ slotLock
                /\ reloads' = (SourcesLen :> 0) @@ reloads
                /\ ids' = [ids EXCEPT ![tk.uri] = tk.id]
                /\ task' = [task EXCEPT ![t] = GetIdReturned(tk, tk.id)]
        /\ UNCHANGED <<nOther, disk>>

\* --------------------------------------------------------------- cache

\* Mutant of NeedsLoad: a stale slot is taken for cached.
NeedsLoad_never(cs) == FALSE

\* CachedSource::cache, before its await: only ClosedModified reads the file.
NeedsLoad(cs) == cs.st = "ClosedModified"

\* Mutant of Recached: the reloaded source is stored as Open.
Recached_open(cs, id, text) == Open(Source(id, cs.uri, text))

\* CachedSource::cache, after `new_cached(id, uri).await?` succeeded:
\* `mem::replace(self, cached)` with ClosedUnmodified of the text read.
Recached(cs, id, text) == ClosedUnmodified(Source(id, cs.uri, text))

\* The guard a method keeps on the slot once `cache(id)` returned Ok(()).
\* get_source: try_downgrade_map, a read guard. get_mut_source: try_map, the
\* write guard. cache_source: none. open (vacant): get_source's read guard.
GuardAfterCache(op, t) ==
    CASE op = "get_mut_source" -> WriteLocked(t)
      [] op = "cache_source" -> Unlocked
      [] OTHER -> ReadLocked(t)

PcAfterCache(op) ==
    CASE op = "get_mut_source" -> "view_mut"
      [] op = "cache_source" -> "idle"
      [] OTHER -> "view_read"

\* `cache(id)` returned Ok(()) with the slot table `srcs`: the method returns
\* its view; open also drops its guard on `ids`.
CacheOk(t, tk, srcs, rl) ==
    /\ sources' = srcs
    /\ reloads' = rl
    /\ slotLock' = [slotLock EXCEPT ![tk.id] = GuardAfterCache(tk.op, t)]
    /\ idsLock' = IF tk.op = "open" THEN Unlocked ELSE idsLock
    /\ task' = [task EXCEPT ![t] = [tk EXCEPT !.pc = PcAfterCache(tk.op), !.ret = "ok"]]
    /\ UNCHANGED <<ids, nOther, disk>>

\* `cache(id)` returned Err: `?` drops the slot guard and returns the error;
\* in open, `.unwrap()` panics and the unwinding drops both guards.
CacheErr(t, tk) ==
    /\ slotLock' = [slotLock EXCEPT ![tk.id] = Unlocked]
    /\ idsLock' = IF tk.op = "open" THEN Unlocked ELSE idsLock
    /\ task' = [task EXCEPT ![t] =
           [tk EXCEPT !.pc = "idle",
                      !.ret = IF tk.op = "open" THEN "panic" ELSE "err",
                      !.error = map_err(io_error(read_to_string(sources[tk.id].uri)))]]
    /\ UNCHANGED <<ids, nOther, sources, disk, reloads>>

\* Mutant of CacheEntry: the slot is entered without its write lock being free.
CacheEntry_nolock(t, tk) ==
    IF NeedsLoad(sources[tk.id])
    THEN /\ slotLock' = [slotLock EXCEPT ![tk.id] = WriteLocked(t)]
         /\ task' = [task EXCEPT ![t] = [tk EXCEPT !.pc = "cache_load"]]
         /\ UNCHANGED <<ids, nOther, sources, idsLock, disk, reloads>>
    ELSE CacheOk(t, tk, sources, reloads)

\* Mutant of CacheEntry: a ClosedUnmodified slot whose file can be read is
\* refreshed from the file at every access.
CacheEntry_refresh(t, tk) ==
    LET cs == sources[tk.id]
    IN  /\ IsFree(slotLock[tk.id])
        /\ IF NeedsLoad(cs)
           THEN /\ slotLock' = [slotLock EXCEPT ![tk.id] = WriteLocked(t)]
                /\ task' = [task EXCEPT ![t] = [tk EXCEPT !.pc = "cache_load"]]
                /\ UNCHANGED <<ids, nOther, sources, idsLock, disk, reloads>>
           ELSE IF cs.st = "ClosedUnmodified" /\ read_to_string(cs.source.uri) # NoFile
                THEN CacheOk(t, tk,
                             [sources EXCEPT ![tk.id] =
                                 Recached(cs.source, tk.id, read_to_string(cs.source.uri))],
                             reloads)
                ELSE CacheOk(t, tk, sources, reloads)

\* get_cached_source granted the slot's write lock; then `cache(id)` up to its
\* await: a cached slot returns Ok(()) at once, a stale one awaits the file read
\* holding the write lock.
CacheEntry(t, tk) ==
    /\ IsFree(slotLock[tk.id])
    /\ IF NeedsLoad(sources[tk.id])
       THEN /\ slotLock' = [slotLock EXCEPT ![tk.id] = WriteLocked(t)]
            /\ task' = [task EXCEPT ![t] = [tk EXCEPT !.pc = "cache_load"]]
            /\ UNCHANGED <<ids, nOther, sources, idsLock, disk, reloads>>
       ELSE CacheOk(t, tk, sources, reloads)

\* cache after `Self::new_cached(id, uri.clone()).await`.
CacheLoaded(t) ==
    LET tk == task[t]
        cs == sources[tk.id]
        text == read_to_string(cs.uri)
    IN  IF text = NoFile
        THEN CacheErr(t, tk)
        ELSE CacheOk(t, tk, [sources EXCEPT ![tk.id] = Recached(cs, tk.id, text)],
                     [reloads EXCEPT ![tk.id] = @ + 1])

\* `read_to_string(path).await` in Source::new_from_file completes, for get_id
\* or for cache.
NewFromFile(t) ==
    /\ task[t].pc \in {"get_id_load", "cache_load"}
    /\ IF task[t].pc = "get_id_load" THEN GetIdLoaded(t) ELSE CacheLoaded(t)

\* A task calls get_source(id), get_mut_source(id) or cache_source(id) with an
\* id it holds, and awaits the slot's write lock in get_cached_source.
CallSlot(t, op, id) ==
    /\ task[t].pc = "idle"
    /\ id \in KnownIds
    /\ task' = [task EXCEPT ![t] = Entered(op, "slot_write", NoUri, id, NoText)]
    /\ UNCHANGED <<ids, nOther, sources, idsLock, slotLock, disk, reloads>>

\* get_source / get_mut_source / cache_source: the slot's write lock is granted.
get_source(t) ==
    /\ task[t].pc = "slot_write"
    /\ task[t].op = "get_source"
    /\ CacheEntry(t, task[t])

get_mut_source(t) ==
    /\ task[t].pc = "slot_write"
    /\ task[t].op = "get_mut_source"
    /\ CacheEntry(t, task[t])

cache_source(t) ==
    /\ task[t].pc = "slot_write"
    /\ task[t].op = "cache_source"
    /\ CacheEntry(t, task[t])

\* ---------------------------------------------------------- open, close

\* A task calls open(uri, text). open up to its await on the slot lock: the
\* write lock on `ids` is granted and kept. Vacant: the Open slot is pushed and
\* the id inserted. Occupied: the id is read.
open(t, u, x) ==
    LET tk == Entered("open", "slot_write", u, NoId, x)
    IN  /\ task[t].pc = "idle"
        /\ IsFree(idsLock)
        /\ idsLock' = WriteLocked(t)
        /\ IF ids[u] = NoId
           THEN /\ sources' = PushedSources(new_open(next_id, u, x))
                /\ slotLock' = (SourcesLen :> Unlocked) @@ slotLock
                /\ reloads' = (SourcesLen :> 0) @@ reloads
                /\ ids' = [ids EXCEPT ![u] = next_id]
                /\ task' = [task EXCEPT ![t] = [tk EXCEPT !.id = next_id, !.vacant = TRUE]]
           ELSE /\ task' = [task EXCEPT ![t] = [tk EXCEPT !.id = ids[u]]]
                /\ UNCHANGED <<ids, sources, slotLock, reloads>>
        /\ UNCHANGED <<nOther, disk>>

\* Mutant of Reopened: a slot that still holds a cached source is not overwritten.
Reopened_keep(cs, id, uri, text) ==
    IF HasCachedSource(cs) THEN Open(cs.source) ELSE new_open(id, uri, text)

\* open, Occupied: `*source = CachedSource::new_open(id, uri, text)`.
Reopened(cs, id, uri, text) == new_open(id, uri, text)

\* open once the slot's write lock is granted. Vacant: the rest of
\* get_source(next_id). Occupied: the slot is overwritten and the guard
\* downgraded. The guard on `ids` is dropped when open returns.
OpenSlot(t) ==
    LET tk == task[t]
    IN  /\ tk.pc = "slot_write"
        /\ tk.op = "open"
        /\ IF tk.vacant
           THEN CacheEntry(t, tk)
           ELSE /\ IsFree(slotLock[tk.id])
                /\ CacheOk(t, tk,
                           [sources EXCEPT ![tk.id] = Reopened(@, tk.id, tk.uri, tk.text)],
                           reloads)

\* close, lines 203-204: once the slot's write lock is granted,
\* `old = mem::replace(&mut *cached_source, ClosedModified(uri))`.
CloseSlot(t) ==
    LET tk == task[t]
    IN  /\ tk.pc = "slot_write"
        /\ tk.op = "close"
        /\ IsFree(slotLock[tk.id])
        /\ slotLock' = [slotLock EXCEPT ![tk.id] = WriteLocked(t)]
        /\ sources' = [sources EXCEPT ![tk.id] = ClosedModified(tk.uri)]
        /\ task' = [task EXCEPT ![t] = [tk EXCEPT !.pc = "close_replaced",
                                                  !.old = sources[tk.id]]]
        /\ UNCHANGED <<ids, nOther, idsLock, disk, reloads>>

\* Mutant of Restored: only a source that was not open is stored back.
Restored_closedonly(old, cur) ==
    IF old.st = "ClosedUnmodified" THEN ClosedUnmodified(old.source) ELSE cur

\* Mutant of Restored: the source taken out of the old value is dropped.
Restored_discard(old, cur) == cur

\* close, lines 205-206: `old.take_cached_source()` is None and close returns,
\* or the source taken is stored back as ClosedUnmodified.
Restored(old, cur) ==
    IF HasCachedSource(old) THEN ClosedUnmodified(old.source) ELSE cur

\* close, lines 205-207, still holding the slot's write lock; the guard is
\* dropped on return.
CloseRestore(t) ==
    LET tk == task[t]
    IN  /\ tk.pc = "close_replaced"
        /\ sources' = [sources EXCEPT ![tk.id] = Restored(tk.old, @)]
        /\ slotLock' = [slotLock EXCEPT ![tk.id] = Unlocked]
        /\ task' = [task EXCEPT ![t] = [tk EXCEPT !.pc = "idle", !.old = NoSlot,
                                                  !.ret = "ok"]]
        /\ UNCHANGED <<ids, nOther, idsLock, disk, reloads>>

\* ---------------------------------------------------------- views, disk

\* Source::replace through the exclusive view of get_mut_source.
Replaced(cs, text) == [cs EXCEPT !.source.text = text]

Edit(t, x) ==
    /\ task[t].pc = "view_mut"
    /\ sources[task[t].id].source.text # x
    /\ sources' = [sources EXCEPT ![task[t].id] = Replaced(@, x)]
    /\ UNCHANGED <<ids, nOther, idsLock, slotLock, disk, reloads, task>>

\* The caller drops the guard that open, get_source or get_mut_source returned.
DropView(t) ==
    /\ task[t].pc \in {"view_read", "view_mut"}
    /\ slotLock' = [slotLock EXCEPT ![task[t].id] = Unlocked]
    /\ task' = [task EXCEPT ![t] = IdleTask]
    /\ UNCHANGED <<ids, nOther, sources, idsLock, disk, reloads>>

\* The file of a URI is written, created or removed outside the server.
DiskWrite(u, c) ==
    /\ disk[u] # c
    /\ disk' = [disk EXCEPT ![u] = c]
    /\ UNCHANGED <<ids, nOther, sources, idsLock, slotLock, reloads, task>>

\* ------------------------------------------------------------- the spec

SlotOps == {"get_source", "get_mut_source", "cache_source"}

Next ==
    \/ \E t \in TASKS, u \in URIS : get_id(t, u) /\ UNCHANGED svars
    \/ \E t \in TASKS, u \in URIS, x \in TEXTS : open(t, u, x) /\ UNCHANGED svars
    \/ \E t \in TASKS, u \in URIS : close(t, u) /\ UNCHANGED svars
    \/ \E t \in TASKS, op \in SlotOps, id \in KnownIds : CallSlot(t, op, id) /\ UNCHANGED svars
    \/ \E t \in TASKS : NewFromFile(t) /\ UNCHANGED svars
    \/ \E t \in TASKS : get_source(t) /\ UNCHANGED svars
    \/ \E t \in TASKS : get_mut_source(t) /\ UNCHANGED svars
    \/ \E t \in TASKS : cache_source(t) /\ UNCHANGED svars
    \/ \E t \in TASKS : OpenSlot(t) /\ UNCHANGED svars
    \/ \E t \in TASKS : CloseSlot(t) /\ UNCHANGED svars
    \/ \E t \in TASKS : CloseRestore(t) /\ UNCHANGED svars
    \/ \E t \in TASKS, x \in TEXTS : Edit(t, x) /\ UNCHANGED svars
    \/ \E t \in TASKS : DropView(t) /\ UNCHANGED svars
    \/ \E u \in URIS, c \in DISK_TEXTS \cup {NoFile} : DiskWrite(u, c) /\ UNCHANGED svars

Spec == Init /\ [][Next]_vars

\* A manager through which IdSpace - 1 other URIs were registered earlier:
\* the next registration takes the last id of the u16 range.
InitFull == InitTables(IdSpace - 1)

SpecFull == InitFull /\ [][Next]_vars

\* mark_changed(uri), the file-watch signal of the specification (section 4.1):
\* under the slot lock, a known file that is not Open becomes ClosedModified;
\* an Open file is left alone.
Invalidated(cs, uri) == IF is_open(cs) THEN cs ELSE ClosedModified(uri)

MarkChanged(u) ==
    /\ ids[u] # NoId
    /\ idsLock.w = NoTask
    /\ IsFree(slotLock[ids[u]])
    /\ ~is_open(sources[ids[u]])
    /\ sources' = [sources EXCEPT ![ids[u]] = Invalidated(@, u)]
    /\ reloads' = [reloads EXCEPT ![ids[u]] = 0]
    /\ UNCHANGED <<ids, nOther, idsLock, slotLock, disk, task>>

NextWatch ==
    \/ Next
    \/ \E u \in URIS : MarkChanged(u) /\ UNCHANGED svars

SpecWatch == Init /\ [][NextWatch]_vars

\* ================================================================ server
\*   src/src/workspace/mod.rs                (Workspace)
\*   src/src/lsp_typst_boundary/world.rs     (WorkspaceWorld)
\*   src/src/server/typst_compiler.rs        (compile_source, eval_source)
\*   src/src/server/document.rs              (run_diagnostics, ..._and_export)
\*   src/src/server/diagnostics.rs           (update_all_diagnostics)

mvars == <<ids, nOther, sources, idsLock, slotLock, disk, reloads, task>>

\* `comemo::evict(30)`
EvictThreshold == 30

\* What World::source returns when get_source failed: `&workspace.detached_source`,
\* TypstSource::detached("").
Detached == "<detached>"

ENTRIES == {"compile_source", "eval_source", "run_diagnostics", "run_diagnostics_and_export"}

\* compile_source runs typst's compile, eval_source typst::eval::eval;
\* run_diagnostics_and_export calls compile_source, run_diagnostics eval_source.
Kind(e) ==
    IF e \in {"compile_source", "run_diagnostics_and_export"} THEN "compile" ELSE "eval"

\* The task holds a guard of Workspace.sources taken outside the pass code and
\* is between calls into the SourceManager, or holds a view of a slot.
InHandler(t) == pass[t].stage = "handler"

\* A task takes `workspace.sources.read().await` to reach the SourceManager.
AcquireRead(t) ==
    /\ pass[t].stage = "none"
    /\ outer.w = NoTask
    /\ outer' = [outer EXCEPT !.r = @ \cup {t}]
    /\ pass' = [pass EXCEPT ![t] = [NoPass EXCEPT !.stage = "handler"]]
    /\ task' = [task EXCEPT ![t] = IdleTask]
    /\ UNCHANGED <<ids, nOther, sources, idsLock, slotLock, disk, reloads,
                   published, lastDone>>

\* The task drops that guard; no view of a slot outlives it.
ReleaseRead(t) ==
    /\ InHandler(t)
    /\ task[t].pc = "idle"
    /\ outer' = [outer EXCEPT !.r = @ \ {t}]
    /\ pass' = [pass EXCEPT ![t] = NoPass]
    /\ task' = [task EXCEPT ![t] = IdleTask]
    /\ UNCHANGED <<ids, nOther, sources, idsLock, slotLock, disk, reloads,
                   published, lastDone>>

\* A task calls entry point e with `source: &Source`: a Source of its own,
\* the task holding no guard or, in a handler, the read guard of
\* Workspace.sources; or one borrowed from the view of a slot it holds.
\* The entry point starts with `self.workspace.get_world().await`.
CallPass(t, e) ==
    /\ \/ pass[t].stage = "none"
       \/ InHandler(t) /\ task[t].pc \in {"idle", "view_read", "view_mut"}
    /\ pass' = [pass EXCEPT ![t] = [NoPass EXCEPT !.stage = "get_world", !.entry = e,
                                                  !.caller = pass[t].stage]]
    /\ UNCHANGED <<mvars, outer, published, lastDone>>

\* get_world returns the WorkspaceWorld, which owns the write guard of
\* Workspace.sources (OwnedRwLockWriteGuard<SourceManager>).
GetWorld(t) ==
    /\ pass[t].stage = "get_world"
    /\ IsFree(outer)
    /\ outer' = WriteLocked(t)
    /\ pass' = [pass EXCEPT ![t] = [@ EXCEPT !.stage = "pass"]]
    /\ UNCHANGED <<mvars, published, lastDone>>

\* The compiler may query the World: inside compile / eval, between queries.
CanQuery(t) == pass[t].stage = "pass" /\ pass[t].q = "none"

\* A query starts: what the previous query returned and logged is forgotten.
Querying(p, q) == [p EXCEPT !.q = q, !.out = "none", !.outId = NoId, !.logs = 0]

\* ---------------------------------------------- WorkspaceWorld::resolve

\* resolve(path): `self.sources.get_id(lsp_uri).await`.
WorldResolve(t, u) ==
    /\ CanQuery(t)
    /\ get_id(t, u)
    /\ pass' = [pass EXCEPT ![t] = Querying(@, "resolve")]
    /\ UNCHANGED <<outer, published, lastDone>>

\* resolve returns Ok(id).
ResolvedOk(p, id) ==
    [p EXCEPT !.q = "none", !.out = "id", !.outId = id, !.resolved = @ \cup {id}]

\* resolve returns Err(error).
ResolvedErr(p) == [p EXCEPT !.q = "none", !.out = "err"]

\* Mutant of ResolveCache: the id is returned without caching the file.
ResolveCache_skip(t) ==
    /\ pass[t].q = "resolve"
    /\ task[t].op = "get_id" /\ task[t].pc = "idle"
    /\ pass' = [pass EXCEPT ![t] = IF task[t].ret = "ok" THEN ResolvedOk(@, task[t].id)
                                   ELSE ResolvedErr(@)]
    /\ UNCHANGED <<mvars, outer, published, lastDone>>

\* resolve after get_id: `Ok(id) => self.sources.cache_source(id).await`, which
\* awaits the slot's write lock; `Err(error) => Err(error)`.
ResolveCache(t) ==
    /\ pass[t].q = "resolve"
    /\ task[t].op = "get_id" /\ task[t].pc = "idle"
    /\ IF task[t].ret = "ok"
       THEN /\ CallSlot(t, "cache_source", task[t].id)
            /\ pass' = [pass EXCEPT ![t] = [@ EXCEPT !.q = "resolve_cache"]]
       ELSE /\ pass' = [pass EXCEPT ![t] = ResolvedErr(@)]
            /\ UNCHANGED mvars
    /\ UNCHANGED <<outer, published, lastDone>>

\* resolve after cache_source: `.map(|()| id)`.
ResolveReturn(t) ==
    /\ pass[t].q = "resolve_cache"
    /\ task[t].op = "cache_source" /\ task[t].pc = "idle"
    /\ pass' = [pass EXCEPT ![t] = IF task[t].ret = "ok" THEN ResolvedOk(@, task[t].id)
                                   ELSE ResolvedErr(@)]
    /\ task' = [task EXCEPT ![t] = IdleTask]
    /\ UNCHANGED <<ids, nOther, sources, idsLock, slotLock, disk, reloads,
                   outer, published, lastDone>>

\* ----------------------------------------------- WorkspaceWorld::source

\* source(id): `self.sources.get_source(id).await`.
WorldSource(t, id) ==
    /\ CanQuery(t)
    /\ CallSlot(t, "get_source", id)
    /\ pass' = [pass EXCEPT ![t] = Querying(@, "source")]
    /\ UNCHANGED <<outer, published, lastDone>>

\* source returns a text for id.
Fetched(p, id, text) ==
    [p EXCEPT !.q = "none", !.out = text, !.outId = id,
              !.seen = @ \cup {[id |-> id, text |-> text]}]

\* source after get_source. `Ok(source)`: the text of the view is returned and
\* the read guard dropped when the block ends. `Err(error)`: the task awaits
\* `client.log_message(..)`.
SourceReturn(t) ==
    /\ pass[t].q = "source"
    /\ task[t].op = "get_source"
    /\ \/ task[t].pc = "view_read"
       \/ task[t].pc = "idle" /\ task[t].ret = "err"
    /\ IF task[t].pc = "view_read"
       THEN /\ pass' = [pass EXCEPT ![t] =
                           Fetched(@, task[t].id, sources[task[t].id].source.text)]
            /\ slotLock' = [slotLock EXCEPT ![task[t].id] = Unlocked]
            /\ task' = [task EXCEPT ![t] = IdleTask]
       ELSE /\ pass' = [pass EXCEPT ![t] = [@ EXCEPT !.q = "log"]]
            /\ UNCHANGED <<slotLock, task>>
    /\ UNCHANGED <<ids, nOther, sources, idsLock, disk, reloads,
                   outer, published, lastDone>>

\* Mutant of Fallback: the error is not logged.
Fallback_silent(p, id) == Fetched(p, id, Detached)

\* source, Err arm: one error message was logged to the client and
\* `&self.workspace.detached_source` is returned.
Fallback(p, id) == [Fetched(p, id, Detached) EXCEPT !.logs = @ + 1]

LogMessage(t) ==
    /\ pass[t].q = "log"
    /\ pass' = [pass EXCEPT ![t] = Fallback(@, task[t].id)]
    /\ task' = [task EXCEPT ![t] = IdleTask]
    /\ UNCHANGED <<ids, nOther, sources, idsLock, slotLock, disk, reloads,
                   outer, published, lastDone>>

\* ------------------------------------------ compile_source, eval_source

\* The diagnostics of a pass: none when it succeeded, those of one file
\* when it returned errors.
PASS_RESULTS == {[result |-> "ok", errs |-> {}]}
              \cup {[result |-> "err", errs |-> {u}] : u \in URIS}

\* `block_in_place(|| compile(..))` / `block_in_place(|| eval(..))` returns.
\* compile_source then runs `drop(world)`; eval_source keeps `world`. Both go
\* on to `source_errors_to_diagnostics(..).await`.
PassEnd(t, r) ==
    /\ CanQuery(t)
    /\ outer' = IF Kind(pass[t].entry) = "compile" THEN Unlocked ELSE outer
    /\ pass' = [pass EXCEPT ![t] = [@ EXCEPT !.stage = "diagnostics", !.out = "none",
                                             !.outId = NoId, !.logs = 0,
                                             !.seen = {}, !.resolved = {},
                                             !.result = r.result, !.errs = r.errs]]
    /\ lastDone' = IF pass[t].entry \in {"run_diagnostics", "run_diagnostics_and_export"}
                   THEN t ELSE lastDone
    /\ UNCHANGED <<mvars, published>>

\* Mutant of Evicted: the cache is evicted only after a pass that succeeded.
Evicted_onsuccess(p) ==
    IF p.result = "err" THEN p
    ELSE [p EXCEPT !.evicts = @ + 1, !.threshold = EvictThreshold]

\* `comemo::evict(30);`
Evicted(p) == [p EXCEPT !.evicts = @ + 1, !.threshold = EvictThreshold]

\* compile_source / eval_source return `(document, diagnostics)`: to the caller,
\* or into update_all_diagnostics, which awaits `workspace.sources.read()`.
Returned(p) ==
    IF p.entry \in {"compile_source", "eval_source"}
    THEN [p EXCEPT !.stage = p.caller, !.done = TRUE]
    ELSE [p EXCEPT !.stage = "update_lock"]

\* After the diagnostics are converted: the eviction, then the return, at
\* which a `world` still alive is dropped.
EvictAndReturn(t) ==
    /\ pass[t].stage = "diagnostics"
    /\ pass' = [pass EXCEPT ![t] = Returned(Evicted(@))]
    /\ outer' = IF outer.w = t THEN Unlocked ELSE outer
    /\ UNCHANGED <<mvars, published, lastDone>>

\* ----------------------------------------------- update_all_diagnostics

\* `let sources = self.workspace.sources.read().await;`
UpdateLock(t) ==
    /\ pass[t].stage = "update_lock"
    /\ outer.w = NoTask
    /\ outer' = [outer EXCEPT !.r = @ \cup {t}]
    /\ pass' = [pass EXCEPT ![t] = [@ EXCEPT !.stage = "open_uris_ids"]]
    /\ UNCHANGED <<mvars, published, lastDone>>

\* open_uris returned `res`: every open URI without diagnostics gets an empty
\* list, and every entry of the map is to be published.
Collected(p, res) ==
    [p EXCEPT !.stage = "publish", !.todo = {}, !.res = res,
              !.keys = p.errs \cup res, !.toPublish = p.errs \cup res]

\* open_uris: `self.ids.read().await` is granted; the stream goes through the
\* entries of `ids`.
OpenUrisIds(t) ==
    /\ pass[t].stage = "open_uris_ids"
    /\ idsLock.w = NoTask
    /\ IF Registered = {}
       THEN /\ pass' = [pass EXCEPT ![t] = Collected(@, {})]
            /\ idsLock' = idsLock
       ELSE /\ pass' = [pass EXCEPT ![t] = [@ EXCEPT !.stage = "open_uris",
                                                    !.todo = Registered]]
            /\ idsLock' = [idsLock EXCEPT !.r = @ \cup {t}]
    /\ UNCHANGED <<ids, nOther, sources, slotLock, disk, reloads, task,
                   outer, published, lastDone>>

\* open_uris, one entry: `self.get_cached_source(id).await.is_open()`: the
\* slot's write lock is granted, is_open read and the guard dropped. After the
\* last entry the guard on `ids` is dropped and the URIs returned.
OpenUrisSlot(t, u) ==
    LET res == pass[t].res \cup (IF is_open(sources[ids[u]]) THEN {u} ELSE {})
    IN  /\ pass[t].stage = "open_uris"
        /\ u \in pass[t].todo
        /\ IsFree(slotLock[ids[u]])
        /\ IF pass[t].todo = {u}
           THEN /\ pass' = [pass EXCEPT ![t] = Collected(@, res)]
                /\ idsLock' = [idsLock EXCEPT !.r = @ \ {t}]
           ELSE /\ pass' = [pass EXCEPT ![t] = [@ EXCEPT !.todo = @ \ {u}, !.res = res]]
                /\ idsLock' = idsLock
        /\ UNCHANGED <<ids, nOther, sources, slotLock, disk, reloads, task,
                       outer, published, lastDone>>

\* One of the futures of join_all: `client.publish_diagnostics(url, ..)`
\* replaces the diagnostics of `url`.
Publish(t, u) ==
    /\ pass[t].stage = "publish"
    /\ u \in pass[t].toPublish
    /\ published' = [published EXCEPT ![u] = t]
    /\ pass' = [pass EXCEPT ![t] = [@ EXCEPT !.toPublish = @ \ {u}]]
    /\ UNCHANGED <<mvars, outer, lastDone>>

\* The entry point has returned and its locals are gone; `keys` remembers the
\* URIs the pass published.
Finished(p) ==
    [NoPass EXCEPT !.stage = p.caller, !.entry = p.entry, !.keys = p.keys, !.done = TRUE]

\* run_diagnostics_and_export after update_all_diagnostics:
\* `if let Some(document) = document { self.export_pdf(source, &document).await; }`.
\* run_diagnostics returns.
AfterUpdate(p) ==
    IF p.entry = "run_diagnostics_and_export" /\ p.result = "ok"
    THEN [NoPass EXCEPT !.stage = "export_pdf", !.entry = p.entry, !.caller = p.caller,
                        !.keys = p.keys, !.result = p.result]
    ELSE Finished(p)

\* join_all is done: update_all_diagnostics returns and drops `sources`; the
\* entry point goes on to export_pdf or returns.
UpdateReturn(t) ==
    /\ pass[t].stage = "publish"
    /\ pass[t].toPublish = {}
    /\ outer' = IF pass[t].caller = "handler" THEN outer
                ELSE [outer EXCEPT !.r = @ \ {t}]
    /\ pass' = [pass EXCEPT ![t] = AfterUpdate(@)]
    /\ UNCHANGED <<mvars, published, lastDone>>

\* `export_pdf(..).await` is over: run_diagnostics_and_export returns.
ExportReturn(t) ==
    /\ pass[t].stage = "export_pdf"
    /\ pass' = [pass EXCEPT ![t] = Finished(@)]
    /\ UNCHANGED <<mvars, outer, published, lastDone>>

\* ------------------------------------------------------ server, the specs

\* In SpecPass one task serves the editor's notifications and one task runs
\* the passes.
EDITORS == {1}
COMPILERS == {2}

\* Calls into the SourceManager by a task that holds a guard of
\* Workspace.sources.
HandlerCalls ==
    \/ \E t \in EDITORS, u \in URIS : InHandler(t) /\ get_id(t, u) /\ UNCHANGED svars
    \/ \E t \in EDITORS, u \in URIS, x \in TEXTS :
          InHandler(t) /\ open(t, u, x) /\ UNCHANGED svars
    \/ \E t \in EDITORS, u \in URIS : InHandler(t) /\ close(t, u) /\ UNCHANGED svars
    \/ \E t \in EDITORS, op \in SlotOps, id \in KnownIds :
          InHandler(t) /\ CallSlot(t, op, id) /\ UNCHANGED svars

\* The steps of the SourceManager methods after the call, the use of views,
\* and the file system.
ManagerSteps ==
    \/ \E t \in TASKS : NewFromFile(t) /\ UNCHANGED svars
    \/ \E t \in TASKS : get_source(t) /\ UNCHANGED svars
    \/ \E t \in TASKS : get_mut_source(t) /\ UNCHANGED svars
    \/ \E t \in TASKS : cache_source(t) /\ UNCHANGED svars
    \/ \E t \in TASKS : OpenSlot(t) /\ UNCHANGED svars
    \/ \E t \in TASKS : CloseSlot(t) /\ UNCHANGED svars
    \/ \E t \in TASKS : CloseRestore(t) /\ UNCHANGED svars
    \/ \E t \in TASKS, x \in TEXTS : InHandler(t) /\ Edit(t, x) /\ UNCHANGED svars
    \/ \E t \in TASKS : InHandler(t) /\ DropView(t) /\ UNCHANGED svars
    \/ \E u \in URIS, c \in DISK_TEXTS \cup {NoFile} : DiskWrite(u, c) /\ UNCHANGED svars

\* The steps of a pass and of the queries of its World.
PassSteps ==
    \/ \E t \in TASKS : GetWorld(t)
    \/ \E t \in TASKS, u \in URIS : WorldResolve(t, u)
    \/ \E t \in TASKS : ResolveCache(t)
    \/ \E t \in TASKS : ResolveReturn(t)
    \/ \E t \in TASKS, id \in KnownIds : WorldSource(t, id)
    \/ \E t \in TASKS : SourceReturn(t)
    \/ \E t \in TASKS, r \in PASS_RESULTS : PassEnd(t, r)
    \/ \E t \in TASKS : EvictAndReturn(t)

\* The server running compile_source and eval_source next to its handlers.
NextPass ==
    \/ \E t \in EDITORS : AcquireRead(t)
    \/ \E t \in EDITORS : ReleaseRead(t)
    \/ HandlerCalls
    \/ ManagerSteps
    \/ \E t \in COMPILERS, e \in {"compile_source", "eval_source"} : CallPass(t, e)
    \/ PassSteps

SpecPass == Init /\ [][NextPass]_vars

\* mark_changed(uri) reaches the SourceManager through Workspace.sources.
WatchChanged(u) ==
    /\ outer.w = NoTask
    /\ MarkChanged(u)
    /\ UNCHANGED svars

\* The same with the file-watch signal; only then can World::source fail.
NextPassWatch ==
    \/ NextPass
    \/ \E u \in URIS : WatchChanged(u)
    \/ \E t \in TASKS : LogMessage(t)

SpecPassWatch == Init /\ [][NextPassWatch]_vars

\* ------------------------------------------- server, the diagnostics spec

\* Calls into the SourceManager by a task that holds a read guard of
\* Workspace.sources.
DiagCalls ==
    \/ \E t \in EDITORS, u \in URIS : InHandler(t) /\ open(t, u, "A") /\ UNCHANGED svars
    \/ \E t \in EDITORS, u \in URIS : InHandler(t) /\ close(t, u) /\ UNCHANGED svars
    \/ \E t \in EDITORS, id \in KnownIds :
          InHandler(t) /\ CallSlot(t, "get_source", id) /\ UNCHANGED svars

\* The steps of those calls and of the calls of the World's queries, and the
\* file system.
DiagManagerSteps ==
    \/ \E t \in TASKS : NewFromFile(t) /\ UNCHANGED svars
    \/ \E t \in TASKS : get_source(t) /\ UNCHANGED svars
    \/ \E t \in TASKS : cache_source(t) /\ UNCHANGED svars
    \/ \E t \in TASKS : OpenSlot(t) /\ UNCHANGED svars
    \/ \E t \in TASKS : CloseSlot(t) /\ UNCHANGED svars
    \/ \E t \in TASKS : CloseRestore(t) /\ UNCHANGED svars
    \/ \E t \in TASKS : InHandler(t) /\ DropView(t) /\ UNCHANGED svars
    \/ \E u \in URIS, c \in DISK_TEXTS \cup {NoFile} : DiskWrite(u, c) /\ UNCHANGED svars

\* run_diagnostics and run_diagnostics_and_export: the pass with the queries
\* of its World, then update_all_diagnostics.
DiagSteps ==
    \/ \E t \in TASKS : GetWorld(t)
    \/ \E t \in TASKS, u \in URIS : WorldResolve(t, u)
    \/ \E t \in TASKS : ResolveCache(t)
    \/ \E t \in TASKS : ResolveReturn(t)
    \/ \E t \in TASKS, id \in KnownIds : WorldSource(t, id)
    \/ \E t \in TASKS : SourceReturn(t)
    \/ \E t \in TASKS, r \in PASS_RESULTS : PassEnd(t, r)
    \/ \E t \in TASKS : EvictAndReturn(t)
    \/ \E t \in TASKS : UpdateLock(t)
    \/ \E t \in TASKS : OpenUrisIds(t)
    \/ \E t \in TASKS, u \in URIS : OpenUrisSlot(t, u)
    \/ \E t \in TASKS, u \in URIS : Publish(t, u)
    \/ \E t \in TASKS : UpdateReturn(t)
    \/ \E t \in TASKS : ExportReturn(t)

DIAG_ENTRIES == {"run_diagnostics", "run_diagnostics_and_export"}

\* One task serves the editor's notifications and runs diagnostics from
\* inside a handler, with or without a view of a slot; the other runs
\* diagnostics on a Source of its own.
NextDiag ==
    \/ \E t \in EDITORS : AcquireRead(t)
    \/ \E t \in EDITORS : ReleaseRead(t)
    \/ DiagCalls
    \/ DiagManagerSteps
    \/ \E t \in EDITORS, e \in DIAG_ENTRIES : InHandler(t) /\ CallPass(t, e)
    \/ \E t \in COMPILERS, e \in DIAG_ENTRIES : CallPass(t, e)
    \/ DiagSteps

SpecDiag == Init /\ [][NextDiag]_vars

\* The steps of the SourceManager calls made by the World's queries.
PublishManagerSteps ==
    \/ \E t \in TASKS : NewFromFile(t) /\ UNCHANGED svars
    \/ \E t \in TASKS : get_source(t) /\ UNCHANGED svars
    \/ \E t \in TASKS : cache_source(t) /\ UNCHANGED svars

\* Two tasks run diagnostics at the same time, each on a Source of its own.
NextPublish ==
    \/ \E t \in TASKS, e \in DIAG_ENTRIES : CallPass(t, e)
    \/ PublishManagerSteps
    \/ DiagSteps

SpecPublish == Init /\ [][NextPublish]_vars

\* ================================================================ claims

\* C1 (state part): while a task holds the view that open(uri, text) returned,
\* the id it got is the table's id of uri and the slot of that id is Open with
\* exactly `text`.
C1_OpenedView ==
    \A t \in TASKS :
        (task[t].op = "open" /\ task[t].pc = "view_read")
            => /\ ids[task[t].uri] = task[t].id
               /\ sources[task[t].id] = new_open(task[t].id, task[t].uri, task[t].text)

\* C1 (step part): open of a known URI takes the id of the table, and neither
\* table grows; get_source on a cached slot returns the view of the slot's
\* text as it is.
C1_Steps ==
    \A t \in TASKS :
        /\ (task[t].pc = "idle" /\ task'[t].op = "open" /\ task'[t].pc = "slot_write"
                /\ ids[task'[t].uri] # NoId)
              => /\ task'[t].id = ids[task'[t].uri]
                 /\ ids' = ids
                 /\ DOMAIN sources' = DOMAIN sources
        /\ (task[t].pc = "slot_write" /\ task[t].op = "get_source"
                /\ task'[t] # task[t] /\ HasCachedSource(sources[task[t].id]))
              => /\ task'[t].pc = "view_read"
                 /\ sources' = sources

\* C1: editor content always wins. Whatever the slot of a URI held before
\* (nothing, Open, ClosedUnmodified, ClosedModified), once open(uri, text) has
\* returned the slot is Open with exactly `text`, a following get_source
\* returns that text, and re-opening a known URI returns the same id and
\* appends no slot.
C1_EditorContentWins == []C1_OpenedView /\ [][C1_Steps]_vars

\* C1 witness: open(uri, "B") returned for a URI that was known (the Occupied
\* branch) and that another task had closed before.
C1_Witness ==
    \E t1 \in TASKS, t2 \in TASKS :
        /\ task[t1].op = "close" /\ task[t1].pc = "idle" /\ task[t1].ret = "ok"
        /\ task[t2].op = "open" /\ task[t2].pc = "view_read" /\ ~task[t2].vacant
        /\ task[t2].uri = task[t1].uri /\ task[t2].text = "B"

\* C2 (as the specification states it): close of a known URI whose slot is
\* Open or ClosedUnmodified leaves the slot ClosedModified(uri), the cached
\* text discarded, so that the next get_source or cache must reload.
C2_CloseDiscards ==
    [][\A t \in TASKS :
         (task[t].pc = "close_replaced" /\ task'[t].pc = "idle"
              /\ HasCachedSource(task[t].old))
            => /\ sources'[task[t].id] = ClosedModified(task[t].uri)
               /\ NeedsLoad(sources'[task[t].id])]_vars

\* C2 (amended): close of a known URI whose slot is Open or ClosedUnmodified
\* leaves the slot ClosedUnmodified with the source it held, text unchanged, so
\* that the next get_source or cache reads nothing from disk.
C2_CloseKeepsText ==
    [][\A t \in TASKS :
         (task[t].pc = "close_replaced" /\ task'[t].pc = "idle"
              /\ HasCachedSource(task[t].old))
            => /\ sources'[task[t].id] = ClosedUnmodified(task[t].old.source)
               /\ ~NeedsLoad(sources'[task[t].id])]_vars

\* C2 witness: close returned for a known URI and its slot is ClosedUnmodified
\* with a text an editor had sent.
C2_Witness ==
    \E t \in TASKS :
        /\ task[t].op = "close" /\ task[t].pc = "idle" /\ task[t].ret = "ok"
        /\ ~task[t].vacant
        /\ sources[task[t].id].st = "ClosedUnmodified"
        /\ sources[task[t].id].source.text \in TEXTS

\* C3: close(uri) of a URI the manager does not know is a no-op: no step that
\* the close takes changes the URI->id table or the slot table, whether or not
\* the file exists.
C3_CloseUnknownNoop ==
    [][\A t \in TASKS :
         (task[t].op = "close" /\ task[t].vacant /\ task[t].pc # "idle"
              /\ task'[t] # task[t])
            => (ids' = ids /\ sources' = sources)]_vars

\* C4 (state part): the first URI registered has id 0, whatever failed before.
C4_FirstIdZero ==
    \A t \in TASKS :
        (task[t].op \in {"open", "get_id"} /\ task[t].vacant /\ task[t].ret = "ok"
            /\ Registered = {task[t].uri})
            => task[t].id = 0

\* C4 (step part): a get_id whose load fails returns the error with both
\* tables as they were; and the id a registration commits is the length of the
\* table at that moment, so it does not depend on calls that failed.
C4_Steps ==
    /\ \A t \in TASKS :
          (task[t].pc = "get_id_load" /\ task'[t] # task[t] /\ read_to_string(task[t].uri) = NoFile)
             => (task'[t].ret = "err" /\ ids' = ids /\ sources' = sources)
    /\ \A u \in URIS :
          (ids'[u] # ids[u]) => (ids[u] = NoId /\ ids'[u] = AsU16(IdsLen))

\* C4: a register_or_lookup whose load fails returns a file error and leaves
\* both tables unchanged, so a retry or a later open gets the id it would have
\* got without the failed call; on an empty manager that id is 0.
C4_FailedLoadAllocatesNothing == []C4_FirstIdZero /\ [][C4_Steps]_vars

\* C4 witness: get_id(uri) failed, and open(uri, text) then registered uri
\* with id 0.
C4_Witness ==
    \E t1 \in TASKS, t2 \in TASKS :
        /\ task[t1].op = "get_id" /\ task[t1].pc = "idle" /\ task[t1].ret = "err"
        /\ task[t2].op = "open" /\ task[t2].pc = "view_read" /\ task[t2].vacant
        /\ task[t2].uri = task[t1].uri /\ task[t2].id = 0

\* C5: the URI->id table is injective (no id of a URI is the id of another
\* URI, inside or outside URIS), and every id in it addresses an existing slot.
C5_IdsInjective ==
    /\ \A u \in Registered, v \in Registered : (u # v) => (ids[u] # ids[v])
    /\ \A u \in Registered : ids[u] >= nOther
    /\ \A u \in Registered : ids[u] \in DOMAIN sources /\ ids[u] < SourcesLen

\* C6 (state part): the id that get_id(uri) returned is the id of uri in the
\* table.
C6_Returned ==
    \A t \in TASKS :
        (task[t].op = "get_id" /\ task[t].ret = "ok")
            => ids[task[t].uri] = task[t].id

\* C6 (step part): an entry of the table never changes; and get_id of a known
\* URI returns the entry in the one step, without awaiting a file read and
\* without changing any table, slot or lock.
C6_Steps ==
    /\ \A u \in URIS : (ids[u] # NoId) => (ids'[u] = ids[u])
    /\ \A t \in TASKS :
          (task[t].pc = "idle" /\ task'[t].op = "get_id" /\ task'[t] # task[t]
               /\ ids[task'[t].uri] # NoId)
             => /\ task'[t].pc = "idle"
                /\ task'[t].ret = "ok"
                /\ task'[t].id = ids[task'[t].uri]
                /\ UNCHANGED <<ids, sources, idsLock, slotLock, disk, reloads>>

\* C6: register_or_lookup is idempotent: two calls with the same URI return
\* the same id, and a call for a known URI reads no file and changes no slot.
C6_GetIdIdempotent == []C6_Returned /\ [][C6_Steps]_vars

\* C6 witness: two tasks called get_id with the same URI and got the same id,
\* the second through the Occupied branch.
C6_Witness ==
    \E t1 \in TASKS, t2 \in TASKS :
        /\ t1 # t2
        /\ task[t1].op = "get_id" /\ task[t1].ret = "ok" /\ task[t1].vacant
        /\ task[t2].op = "get_id" /\ task[t2].ret = "ok" /\ ~task[t2].vacant
        /\ task[t1].uri = task[t2].uri /\ task[t1].id = task[t2].id

\* C7 (state part): a slot whose reload is awaited is ClosedModified.
C7_LoadingIsStale ==
    \A t \in TASKS :
        (task[t].pc = "cache_load") => (sources[task[t].id].st = "ClosedModified")

\* C7 (step part), for get_source, get_mut_source and cache_source. With the
\* slot lock granted: a ClosedModified slot goes on to the file read, slots
\* unchanged; an Open or ClosedUnmodified slot returns Ok with no file read and
\* slots unchanged. After the file read: on success the slot is
\* ClosedUnmodified with the text on disk and the method returns Ok (with its
\* view); on failure the method returns the error and the slot is unchanged.
C7_Steps ==
    \A t \in TASKS :
        /\ (task[t].pc = "slot_write" /\ task[t].op \in SlotOps /\ task'[t] # task[t])
              => /\ sources' = sources
                 /\ IF sources[task[t].id].st = "ClosedModified"
                    THEN task'[t].pc = "cache_load"
                    ELSE task'[t].pc # "cache_load" /\ task'[t].ret = "ok"
        /\ (task[t].pc = "cache_load" /\ task[t].op \in SlotOps /\ task'[t] # task[t])
              => IF disk[sources[task[t].id].uri] = NoFile
                 THEN /\ task'[t].ret = "err" /\ task'[t].pc = "idle"
                      /\ sources' = sources
                 ELSE /\ task'[t].ret = "ok"
                      /\ task'[t].pc = (CASE task[t].op = "get_source" -> "view_read"
                                          [] task[t].op = "get_mut_source" -> "view_mut"
                                          [] OTHER -> "idle")
                      /\ sources' = [sources EXCEPT ![task[t].id] =
                            ClosedUnmodified(Source(task[t].id, sources[task[t].id].uri,
                                                    disk[sources[task[t].id].uri]))]

\* C7: the cache-fill transition. get_source, get_mut_source and cache on a
\* ClosedModified slot reload from disk: success makes the slot
\* ClosedUnmodified with the disk content, failure returns the error and leaves
\* the slot ClosedModified with its URI. On an Open or ClosedUnmodified slot
\* they read nothing and do not change the slot.
C7_CacheFill == []C7_LoadingIsStale /\ [][C7_Steps]_vars

\* C7 witness: get_source returned its view after a reload of one slot, and a
\* reload of another slot failed and left it ClosedModified.
C7_Witness ==
    \E t1 \in TASKS, t2 \in TASKS :
        /\ task[t1].op = "get_source" /\ task[t1].pc = "view_read"
        /\ reloads[task[t1].id] = 1
        /\ sources[task[t1].id].st = "ClosedUnmodified"
        /\ sources[task[t1].id].source.text \in DISK_TEXTS
        /\ task[t2].op \in SlotOps /\ task[t2].pc = "idle" /\ task[t2].ret = "err"
        /\ sources[task[t2].id].st = "ClosedModified"

\* The tasks awaiting the file read of a reload of slot s.
C8_Reloading(s) == {t \in TASKS : task[t].pc = "cache_load" /\ task[t].id = s}

\* C8: at most one reload. However many tasks call cache, get_source or
\* get_mut_source on a stale slot, at most one of them is reloading it at any
\* moment, none reloads it once a reload has succeeded, and so exactly one
\* successful disk read happens per stale slot, under every interleaving.
C8_AtMostOneReload ==
    \A s \in DOMAIN sources :
        /\ reloads[s] <= 1
        /\ Cardinality(C8_Reloading(s)) <= 1
        /\ (C8_Reloading(s) # {}) => (reloads[s] = 0)
        /\ (reloads[s] = 1) => (sources[s].st # "ClosedModified" \/ slotLock[s].w # NoTask)

\* C8 witness: one task reloaded a stale slot and holds its view; another task
\* that called cache_source on the same slot is still waiting for the lock.
C8_Witness ==
    \E t1 \in TASKS, t2 \in TASKS :
        /\ task[t1].op = "get_source" /\ task[t1].pc = "view_read"
        /\ reloads[task[t1].id] = 1
        /\ task[t2].op = "cache_source" /\ task[t2].pc = "slot_write"
        /\ task[t2].id = task[t1].id

\* The tasks inside slot s: reloading it, in the middle of close, or holding a
\* read or an exclusive view of it.
C9_InSlot(s) ==
    {t \in TASKS : task[t].id = s
                   /\ task[t].pc \in {"cache_load", "close_replaced", "view_read", "view_mut"}}

\* C9: per-slot mutual exclusion. At most one task is inside a slot (cache
\* fill, close, read view, exclusive view) at any moment, it holds the slot's
\* lock, and a view never shows a slot without a cached source: the
\* ClosedModified that close writes is gone before any view is granted.
C9_SlotExclusion ==
    \A s \in DOMAIN sources :
        /\ Cardinality(C9_InSlot(s)) <= 1
        /\ \A t \in C9_InSlot(s) :
              /\ slotLock[s] = IF task[t].pc = "view_read" THEN ReadLocked(t)
                               ELSE WriteLocked(t)
              /\ (task[t].pc \in {"view_read", "view_mut"}) => HasCachedSource(sources[s])
        /\ (C9_InSlot(s) = {}) => (slotLock[s] = Unlocked)

\* C9 witness: close has replaced an Open slot by ClosedModified and not yet
\* put the source back, while a get_source of the same slot waits for the lock.
C9_Witness ==
    \E t1 \in TASKS, t2 \in TASKS :
        /\ task[t1].pc = "close_replaced" /\ task[t1].old.st = "Open"
        /\ sources[task[t1].id].st = "ClosedModified"
        /\ task[t2].op = "get_source" /\ task[t2].pc = "slot_write"
        /\ task[t2].id = task[t1].id

\* C10: operations on different files never block each other. The task that
\* holds the lock of the URI->id table for one URI is never awaiting a file
\* read, nor waiting for a slot lock that another task holds, so an operation
\* on any other URI never waits for those.
C10_TableLockBrief ==
    \A t \in TASKS, u \in URIS :
        (idsLock.w = t /\ task[t].uri # u)
            => /\ task[t].pc \notin {"get_id_load", "cache_load"}
               /\ ~(task[t].pc = "slot_write" /\ ~IsFree(slotLock[task[t].id]))

\* C19: loading a Source from disk reports the kind of failure; get_id of a
\* file that is absent on disk returns not-found.
C19_AbsentIsNotFound ==
    \A t \in TASKS :
        (task[t].op = "get_id" /\ task[t].ret = "err") => (task[t].error = "NotFound")

\* C11 (step part). (a) get_source granted the lock of a ClosedModified slot
\* goes on to the file read and returns no view in that step. (b) The view
\* get_source returns after the read shows the text on disk at that read.
\* (c) A ClosedModified slot stays ClosedModified until a reload, an open, or
\* the end of the close that wrote it. (d) A change notification makes a
\* ClosedUnmodified slot ClosedModified and never touches an Open slot.
C11_Steps ==
    /\ \A t \in TASKS :
          /\ (task[t].op = "get_source" /\ task[t].pc = "slot_write"
                  /\ task'[t] # task[t] /\ sources[task[t].id].st = "ClosedModified")
                => (task'[t].pc = "cache_load")
          /\ (task[t].op = "get_source" /\ task[t].pc = "cache_load"
                  /\ task'[t].pc = "view_read")
                => (sources'[task[t].id].source.text = disk[sources[task[t].id].uri])
    /\ \A s \in DOMAIN sources :
          /\ (sources[s].st = "ClosedModified" /\ sources'[s].st # "ClosedModified")
                => \E t \in TASKS :
                      /\ task[t].id = s
                      /\ \/ task[t].pc = "cache_load"
                         \/ task[t].op = "open" /\ task[t].pc = "slot_write"
                         \/ task[t].pc = "close_replaced" /\ HasCachedSource(task[t].old)
          /\ (sources[s].st # "ClosedModified" /\ sources'[s].st = "ClosedModified"
                  /\ task' = task)
                => (sources[s].st = "ClosedUnmodified")

\* C11: a close of a URI, then a change notification for it, then a read: the
\* read reloads. Once the notification has made the slot ClosedModified, no
\* get_source returns a view of it without a fresh disk read, and the view
\* returned shows what that read found.
C11_StaleThenReload ==
    [](\A t \in TASKS : (task[t].op = "get_source" /\ task[t].pc = "view_read")
                            => HasCachedSource(sources[task[t].id]))
    /\ [][C11_Steps]_vars

\* C11 witness: an editor's text was closed, a change notification made the
\* slot stale, and get_source holds the view of the text reloaded from disk.
C11_Witness ==
    \E t1 \in TASKS, t2 \in TASKS :
        /\ task[t1].op = "close" /\ task[t1].pc = "idle" /\ task[t1].ret = "ok"
        /\ ~task[t1].vacant
        /\ task[t2].op = "get_source" /\ task[t2].pc = "view_read"
        /\ ids[task[t1].uri] = task[t2].id
        /\ reloads[task[t2].id] = 1
        /\ sources[task[t2].id].source.text \in DISK_TEXTS

\* C13: in compile and in evaluate passes alike, the memoization cache is
\* evicted only after the pass has released its World: no eviction happens in
\* a step that starts with the evicting task still holding the write guard of
\* Workspace.sources.
C13_EvictAfterRelease ==
    [][\A t \in TASKS :
         (pass'[t].evicts > pass[t].evicts) => (outer.w # t)]_vars

\* C18: every compile or evaluate pass, successful or not, evicts the
\* memoization cache exactly once, with threshold 30, before the entry point
\* returns: none before the diagnostics are converted, one at every return.
C18_EvictOncePerPass ==
    \A t \in TASKS :
        /\ (pass[t].stage \in {"get_world", "pass", "diagnostics"})
              => (pass[t].evicts = 0)
        /\ (\/ pass[t].done /\ pass[t].entry \in {"compile_source", "eval_source"}
            \/ pass[t].stage \in {"update_lock", "open_uris_ids", "open_uris", "publish"})
              => (pass[t].evicts = 1 /\ pass[t].threshold = 30)

\* C18 witness: an evaluate pass that returned errors has returned, after
\* its one eviction.
C18_Witness ==
    \E t \in TASKS :
        /\ pass[t].done /\ pass[t].entry = "eval_source"
        /\ pass[t].result = "err" /\ pass[t].evicts = 1

\* C16: World::source never fails the pass. When the slot cannot be cached the
\* query returns the detached source and logs exactly one error, the failed
\* reload and the fallback leave every slot as it was, the pass goes on, and a
\* fetch that succeeds returns the content of its own slot.
C16_Steps ==
    \A t \in TASKS :
        /\ (pass[t].q = "source" /\ task[t].pc = "cache_load" /\ task'[t].ret = "err")
              => (sources' = sources)
        /\ (pass[t].q \in {"source", "log"} /\ pass'[t] # pass[t])
              => /\ sources' = sources
                 /\ pass'[t].stage = "pass"
                 /\ pass'[t].q \in {"log", "none"}
        /\ (pass[t].q = "source" /\ pass'[t].q = "none")
              => /\ pass'[t].out = sources[task[t].id].source.text
                 /\ pass'[t].outId = sources[task[t].id].source.id
                 /\ pass'[t].logs = 0

C16_LoggedOnce ==
    \A t \in TASKS :
        /\ (pass[t].out = Detached) => (pass[t].logs = 1 /\ pass[t].q = "none")
        /\ (pass[t].q = "log") => (task[t].ret = "err" /\ pass[t].logs = 0)

C16_FetchNeverFails == []C16_LoggedOnce /\ [][C16_Steps]_vars

\* C16 witness: in one pass the fetch of a file that could not be reloaded
\* returned the detached source, its slot is still stale, and a later fetch
\* of another file returned that file's content.
C16_Witness ==
    \E t \in TASKS : \E a \in pass[t].seen :
        /\ a.text = Detached
        /\ sources[a.id].st = "ClosedModified"
        /\ pass[t].stage = "pass" /\ pass[t].q = "none"
        /\ pass[t].outId # a.id /\ pass[t].out \in TEXTS \cup DISK_TEXTS

\* C17: when World::resolve returns an id, the slot of that id is cached at
\* the moment resolve returns and stays cached for the rest of the pass, so
\* no later World::source of that id in the pass yields the detached source;
\* when the file cannot be registered or cached, resolve returns the error.
C17_ResolvedCached ==
    \A t \in TASKS : \A id \in pass[t].resolved :
        /\ pass[t].stage = "pass"
        /\ HasCachedSource(sources[id])

C17_Steps ==
    \A t \in TASKS :
        /\ (pass[t].q \in {"resolve", "resolve_cache"} /\ pass'[t].q = "none")
              => IF task[t].ret = "ok"
                 THEN /\ pass'[t].out = "id"
                      /\ pass'[t].outId = task[t].id
                      /\ HasCachedSource(sources'[task[t].id])
                 ELSE /\ pass'[t].out = "err"
                      /\ pass'[t].resolved = pass[t].resolved
        /\ (pass[t].q = "source" /\ task[t].id \in pass[t].resolved /\ pass'[t] # pass[t])
              => /\ pass'[t].q = "none"
                 /\ pass'[t].out = sources[task[t].id].source.text

C17_ResolveThenFetch == []C17_ResolvedCached /\ [][C17_Steps]_vars

\* C17 witness: resolve returned the id of a file whose stale slot it had to
\* reload, and the fetch of that id that followed returned the file's text.
C17_Witness ==
    \E t \in TASKS :
        /\ pass[t].stage = "pass" /\ pass[t].q = "none"
        /\ pass[t].outId \in pass[t].resolved
        /\ reloads[pass[t].outId] = 1
        /\ pass[t].out \in DISK_TEXTS

\* C14: a pass runs against a stable snapshot of the workspace. While a task
\* holds the World no other task is inside the SourceManager, slots and
\* registrations change only by the pass's own queries, and World::source
\* returns the same text for every query of an id within the pass.
C14_SameText ==
    \A t \in TASKS : \A a \in pass[t].seen : \A b \in pass[t].seen :
        (a.id = b.id) => (a.text = b.text)

C14_Exclusive ==
    \A t \in TASKS :
        (outer.w = t) =>
            \A x \in TASKS \ {t} : task[x] = IdleTask /\ ~InHandler(x)

C14_Steps ==
    \A t \in TASKS :
        (outer.w = t /\ (sources' # sources \/ ids' # ids))
            => (pass[t].q # "none" /\ task'[t] # task[t])

C14_StableSnapshot == []C14_SameText /\ []C14_Exclusive /\ [][C14_Steps]_vars

\* The isolation half alone; it also holds with the file-watch signal
\* (SpecPassWatch).
C14_Isolation == []C14_Exclusive /\ [][C14_Steps]_vars

\* C14 witness: a pass that already fetched the text of an id fetches the id
\* again, get_source has returned the view of the slot, the file of the id
\* no longer has the text the pass saw, and the view still has that text.
C14_Witness ==
    \E t \in TASKS :
        /\ outer.w = t /\ pass[t].stage = "pass" /\ pass[t].q = "source"
        /\ task[t].op = "get_source" /\ task[t].pc = "view_read"
        /\ \E s \in pass[t].seen :
              /\ s.id = task[t].id
              /\ \E u \in Registered : ids[u] = s.id /\ disk[u] # s.text
              /\ sources[s.id].source.text = s.text

\* C12: open_uris reports a URI exactly when the slot of the URI is Open at
\* the moment it examines the slot, it examines every registered URI, misses
\* no URI that is open, and changes no slot; a slot becomes Open only in a
\* step of an open of its URI and stops being Open only in a step of a close
\* of its URI, open returns with the slot Open and close with the slot not
\* Open: the report follows the last open or close applied to each URI.
C12_IsOpen(srcs, id) == id \in DOMAIN srcs /\ srcs[id].st = "Open"

C12_NoneMissed ==
    \A t \in TASKS :
        (pass[t].stage = "open_uris") =>
            /\ pass[t].todo \subseteq Registered
            /\ pass[t].res \subseteq Registered \ pass[t].todo
            /\ \A u \in Registered \ pass[t].todo :
                  C12_IsOpen(sources, ids[u]) => (u \in pass[t].res)

C12_Steps ==
    /\ \A t \in TASKS :
          /\ (pass[t].stage \in {"open_uris_ids", "open_uris"} /\ pass'[t] # pass[t])
                => (sources' = sources /\ ids' = ids)
          /\ (pass[t].stage = "open_uris_ids" /\ pass'[t].stage = "open_uris")
                => (pass'[t].todo = Registered /\ pass'[t].res = {})
          /\ \A u \in URIS :
                (pass[t].stage = "open_uris" /\ u \in pass[t].todo /\ u \notin pass'[t].todo)
                   => /\ (u \in pass'[t].res) <=> C12_IsOpen(sources, ids[u])
                      /\ pass'[t].res \ {u} = pass[t].res
          /\ (pass[t].stage = "open_uris" /\ pass'[t].stage = "publish")
                => \A u \in URIS : C12_IsOpen(sources, ids[u]) => (u \in pass'[t].res)
    /\ \A u \in URIS :
          /\ (~C12_IsOpen(sources, ids[u]) /\ C12_IsOpen(sources', ids'[u]))
                => \E x \in TASKS : /\ task'[x].op = "open" /\ task'[x].uri = u
                                    /\ task'[x] # task[x]
          /\ (C12_IsOpen(sources, ids[u]) /\ ~C12_IsOpen(sources', ids'[u]))
                => \E x \in TASKS : /\ task'[x].op = "close" /\ task'[x].uri = u
                                    /\ task'[x] # task[x]
    /\ \A x \in TASKS :
          /\ (task[x].op = "open" /\ task[x].pc # "view_read" /\ task'[x].pc = "view_read")
                => C12_IsOpen(sources', ids'[task[x].uri])
          /\ (task[x].op = "close" /\ task[x].pc # "idle" /\ task'[x].pc = "idle"
              /\ task'[x].ret = "ok")
                => ~C12_IsOpen(sources', ids'[task[x].uri])

C12_OpenUrisExact == []C12_NoneMissed /\ [][C12_Steps]_vars

\* C12 witness: open_uris has returned in a workspace with two registered
\* URIs, one opened and one opened and then closed, and reported only the
\* first.
C12_Witness ==
    \E t \in TASKS : \E u \in URIS : \E v \in URIS :
        /\ pass[t].stage = "publish"
        /\ pass[t].res = {u}
        /\ v # u /\ v \in Registered
        /\ sources[ids[u]].st = "Open"
        /\ sources[ids[v]] = ClosedUnmodified(Source(ids[v], v, "A"))

\* C15: when two passes publish concurrently, after both have finished
\* publishing, every URI that both published shows the diagnostics of the
\* pass that completed most recently, and no two URIs that both published
\* show diagnostics of different passes.
C15_BothDone ==
    \A t \in TASKS : /\ pass[t].entry \in DIAG_ENTRIES
                     /\ pass[t].done \/ pass[t].stage = "export_pdf"

C15_Common == {u \in URIS : \A t \in TASKS : u \in pass[t].keys}

C15_LatestWins ==
    C15_BothDone => \A u \in C15_Common : published[u] = lastDone

C15_NoMix ==
    C15_BothDone => \A u \in C15_Common : \A v \in C15_Common : published[u] = published[v]

C15_WholesaleLatest == C15_LatestWins /\ C15_NoMix

\* C20: run_diagnostics and run_diagnostics_and_export called by a task that
\* holds the read view of a slot never wait on a lock the task holds itself:
\* not on Workspace.sources when acquiring the World, and not on a slot when
\* open_uris takes the slot's write lock.
C20_NoSelfWait ==
    \A t \in TASKS :
        (pass[t].caller = "handler" /\ task[t].pc = "view_read") =>
            /\ (pass[t].stage = "get_world") => (t \notin outer.r /\ outer.w # t)
            /\ (pass[t].stage = "open_uris") =>
                  \A u \in pass[t].todo :
                      t \notin slotLock[ids[u]].r /\ slotLock[ids[u]].w # t

\* C21: no operation of the SourceManager leaves a slot ClosedModified. A
\* slot is ClosedModified only between the two steps of a close that holds
\* the slot's write lock, every other slot is Open or ClosedUnmodified, close
\* puts back the source it took out with its text, and no get_source,
\* get_mut_source, cache_source or open ever reads a file to reload a slot.
C21_OnlyInsideClose ==
    /\ \A s \in DOMAIN sources :
          /\ (sources[s].st = "ClosedModified")
                => \E t \in TASKS : /\ task[t].op = "close" /\ task[t].pc = "close_replaced"
                                    /\ task[t].id = s /\ slotLock[s] = WriteLocked(t)
                                    /\ HasCachedSource(task[t].old)
          /\ sources[s].st \in {"Open", "ClosedUnmodified", "ClosedModified"}
          /\ reloads[s] = 0
    /\ \A t \in TASKS : task[t].pc # "cache_load"

C21_Steps ==
    \A t \in TASKS :
        (task[t].pc = "close_replaced" /\ task'[t].pc # "close_replaced")
            => sources'[task[t].id] = ClosedUnmodified(task[t].old.source)

C21_NeverLeftStale == []C21_OnlyInsideClose /\ [][C21_Steps]_vars

\* C21 witness: a file opened with the editor's text was closed, the close
\* has returned, and a get_mut_source that followed got its view of the slot,
\* ClosedUnmodified with the editor's text, without any reload.
C21_Witness ==
    \E t1 \in TASKS, t2 \in TASKS :
        /\ task[t1].op = "close" /\ task[t1].pc = "idle" /\ task[t1].ret = "ok"
        /\ task[t2].op = "get_mut_source" /\ task[t2].pc = "view_mut"
        /\ task[t2].id = task[t1].id
        /\ sources[task[t2].id].st = "ClosedUnmodified"
        /\ sources[task[t2].id].source.text \in TEXTS
        /\ reloads[task[t2].id] = 0

\* The URI a slot belongs to.
C22_SlotUri(cs) == IF HasCachedSource(cs) THEN cs.source.uri ELSE cs.uri

\* C22: the URI->id table and the slot table have the same length, and the id
\* of every registered URI is the index of the slot appended for it: the slot
\* of that id exists and holds the Source of that URI, with that id. This for
\* any number of registered URIs.
C22_IdIsSlotIndex ==
    /\ IdsLen = SourcesLen
    /\ \A u \in Registered :
          /\ ids[u] \in DOMAIN sources
          /\ C22_SlotUri(sources[ids[u]]) = u
          /\ HasCachedSource(sources[ids[u]]) => (sources[ids[u]].source.id = ids[u])

====
